---- MODULE Spec2Model ----
(***************************************************************************)
(* Session lifecycle and completion protocol of the VoidWriter HTTP server *)
(* (src/writer/server.js): module-level state, the startServer promise,    *)
(* the /api/complete and /api/save handlers, the timeout timer, the 100 ms *)
(* shutdown-on-save timers, the SIGINT/SIGTERM handlers and shutdown().    *)
(*                                                                         *)
(* Runtime rules the model takes from Node.js: handlers run to completion  *)
(* (one action each, split only at an await); a promise settles once;      *)
(* process.nextTick callbacks (the 'listening'/'error' event of listen and *)
(* the 'close' event of a drained server) run before any timer, signal or  *)
(* I/O callback; server.close() stops accepting new connections and emits  *)
(* 'close' when the last open connection has ended.                        *)
(***************************************************************************)
EXTENDS Integers, Sequences, FiniteSets, TLC

VARIABLES
    phase,           \* position of startServer's executor: idle / init / started
    options,         \* the options object passed to startServer
    completionData,  \* server.js:23
    serverResolve,   \* server.js:24  (FALSE = null, TRUE = closure installed)
    server,          \* server.js:25  and the state of the net.Server
    saveConfig,      \* server.js:27
    shutdownOnSave,  \* server.js:28
    timeoutHandle,   \* server.js:320 the session timeout timer
    delayTimers,     \* server.js:158 number of pending 100 ms timers
    promise,         \* the promise returned by startServer
    closeCbs,        \* callbacks registered by server.close(cb), not yet run
    closeEmit,       \* a 'close' event is queued on the next tick
    conn,            \* client connections
    writes,          \* /api/save handlers suspended at await fs.writeFile:
                     \* the body, and whether the write has reached the file
    file,            \* content of the file at saveConfig.path
    nreq,            \* number of requests received so far
    nsig,            \* number of signals delivered so far
    steps,           \* what the handler that ran last did, in program order
    response,        \* the HTTP response the handler that ran last issued
    request,         \* the body of the request the handler that ran last served
    gateCalls,       \* history: number of calls of serverResolve
    shutdownCalls,   \* history: number of calls of shutdown
    firstShutdownBy, \* history: the caller of the first shutdown
    firstStored,     \* history: the first payload stored in completionData
    slotAtClose,     \* history: completionData as read when the promise resolved
    cli,             \* voidwriter.js: position of main() ("none": no CLI)
    argv,            \* voidwriter.js:30 the parsed command line
    exitCode,        \* the code given to process.exit
    printed,         \* the lines written to standard output so far
    outFile,         \* voidwriter.js:180 the content of the --output file
    envPORT,         \* process.env.PORT
    PORT,            \* src/server.js:20 the constant PORT of the root server
    listenPort,      \* the port passed to app.listen
    uiConfig,        \* server.js:26 the UI texts injected into the page
    indexFile,       \* the content of dist/index.html
    reads,           \* GET / handlers suspended at await fs.readFile
    timeout,         \* server.js:302 the delay of the session timeout timer
    logger           \* server.js:29 the logger of the session

\* The state of the server module and the state of the CLI process around it.
session == <<phase, options, completionData, serverResolve, server, saveConfig,
             shutdownOnSave, timeoutHandle, delayTimers, promise, closeCbs,
             closeEmit, conn, writes, file, nreq, nsig, steps, response,
             request, gateCalls, shutdownCalls, firstShutdownBy, firstStored,
             slotAtClose, uiConfig, indexFile, reads, timeout, logger>>
ports == <<envPORT, PORT, listenPort>>
process == <<cli, argv, exitCode, printed, outFile, ports>>

vars == <<session, process>>

\* The variables a handler leaves alone unless it says otherwise.
page == <<uiConfig, indexFile, reads>>
config == <<phase, options, serverResolve, saveConfig, shutdownOnSave, page,
            timeout, logger>>
gate == <<timeoutHandle, server, closeCbs, closeEmit, promise, gateCalls,
          shutdownCalls, firstShutdownBy, slotAtClose>>

-----------------------------------------------------------------------------
(* Bounds *)

MaxConns == 2       \* connections open at the same time
MaxReqs == 2        \* requests received in a session
MaxSignals == 1     \* signals delivered to the process

Conns == 1..MaxConns

-----------------------------------------------------------------------------
(* Values *)

Null == [null |-> TRUE]              \* JS null / undefined in an object slot
NullStr == "null"                    \* JS null in a string slot
NoFile == "<absent>"                 \* no file exists at the path
EmptyObject == [empty |-> TRUE]      \* the object literal {}

\* Documents as sequences of pieces.  The index document of the built UI
\* bundle has a head, and so a closing </head> tag.
Piece(t) == [tag |-> t]
BuiltIndex == <<Piece("<head>"), Piece("</head>"), Piece("<body>")>>

SavePath == "/tmp/x.txt"
MetaC == [wordCount |-> 1, cancelled |-> FALSE]
MetaS == [wordCount |-> 1]

\* Bodies a client POSTs to /api/complete.
CompleteBodies ==
    { [success |-> TRUE, text |-> "a", metadata |-> MetaC],
      [success |-> TRUE, text |-> "b", metadata |-> MetaC] }

\* Bodies a client POSTs to /api/save: buffer and metadata each optional.
SaveBodies ==
    { [buffer |-> "a", metadata |-> MetaS],
      [buffer |-> "b"],
      [buffer |-> "", metadata |-> MetaS],
      [metadata |-> MetaS] }

\* A request body that is not valid JSON.
Malformed == [malformed |-> TRUE]

\* Option objects passed to startServer; Null stands for an omitted option.
Options ==
    { [saveConfig |-> Null, shutdownOnSave |-> Null],
      [saveConfig |-> [mode |-> "return", path |-> SavePath], shutdownOnSave |-> [v |-> TRUE]],
      [saveConfig |-> [mode |-> "disk", path |-> SavePath], shutdownOnSave |-> [v |-> TRUE]],
      [saveConfig |-> [mode |-> "both", path |-> SavePath], shutdownOnSave |-> [v |-> FALSE]],
      [saveConfig |-> [mode |-> "disk", path |-> NullStr], shutdownOnSave |-> [v |-> TRUE]] }

\* DefaultPayload with the cancelled flag forgotten.
DefaultPayloadNoFlag ==
    [success |-> FALSE, text |-> "",
     metadata |-> [wordCount |-> 0, sessionDuration |-> 0]]

\* The payload shutdown() substitutes when completionData is unset.
DefaultPayload ==
    [success |-> FALSE, text |-> "",
     metadata |-> [cancelled |-> TRUE, wordCount |-> 0, sessionDuration |-> 0]]

NoExit == -1                         \* process.exit has not been called
Absent == [absent |-> TRUE]          \* no file exists at the --output path

\* Port values: a number, the string process.env holds for a number
\* assigned to it, or nothing (an unset variable, a constant not yet
\* evaluated, no listen call yet).
Unset == [unset |-> TRUE]
Num(n) == [num |-> n]
Str(n) == [str |-> n]
DefaultTimeout == 900000             \* 15 * 60 * 1000 ms
DefaultPort == 3333
Ports == {3333, 4000}                \* values of --port (default 3333)

\* The port the server binds when v is passed to listen: a numeric string
\* is taken as its number.
PortOf(v) == IF "num" \in DOMAIN v THEN v.num ELSE v.str

\* Lines of standard output: the two lines of
\* console.log(`\n📋 Log file: ...`) and the line of a JSON result.
EmptyLine == [line |-> ""]
LogFileLine == [line |-> "Log file"]
ResultLine(output) == [json |-> output]

BindError == [error |-> "EADDRINUSE"]
AcceptError == [error |-> "accept"]

-----------------------------------------------------------------------------
(* The promise returned by startServer: resolve and reject settle it once. *)

\* Resolve as a plain callback that overwrites an earlier outcome.
ResolveOverwrite(p, v) == [state |-> "resolved", value |-> v]

Resolve(p, v) ==
    IF p.state = "pending" THEN [state |-> "resolved", value |-> v] ELSE p

Reject(p, err) ==
    IF p.state = "pending" THEN [state |-> "rejected", value |-> err] ELSE p

\* clearTimeout(timeoutHandle)
ClearTimeout(h) == IF h = "armed" THEN "cleared" ELSE h

Truthy(v) == v # Null

OpenConns == {c \in Conns : conn[c] = "open"}

\* The process has not exited (process.exit ends every activity).
Alive == cli # "exited"

\* main() is suspended at `await startServer(...)` and the promise has
\* settled: its continuation is queued as a microtask.
Due == cli = "awaiting" /\ promise.state # "pending"

\* Callbacks of the event loop (timers, signals, I/O) run only when the
\* next-tick queue and the microtask queue are empty.
Quiet == ~closeEmit /\ server # "binding" /\ ~Due /\ Alive

-----------------------------------------------------------------------------
(* Initial state: the module has been loaded (server.js:21-29). *)

ServerInit ==
    /\ phase = "idle"
    /\ options = Null
    /\ completionData = Null
    /\ serverResolve = FALSE
    /\ server = "null"
    /\ saveConfig = [mode |-> "return", path |-> NullStr]
    /\ shutdownOnSave = FALSE
    /\ timeoutHandle = "none"
    /\ delayTimers = 0
    /\ promise = [state |-> "pending", value |-> Null]
    /\ closeCbs = 0
    /\ closeEmit = FALSE
    /\ conn = [c \in Conns |-> "unused"]
    /\ writes = [c \in Conns |-> Null]
    /\ file = NoFile
    /\ nreq = 0
    /\ nsig = 0
    /\ steps = <<>>
    /\ response = Null
    /\ request = Null
    /\ uiConfig = EmptyObject
    /\ indexFile = BuiltIndex
    /\ reads = [c \in Conns |-> Null]
    /\ timeout = Null
    /\ logger = Null
    /\ gateCalls = 0
    /\ shutdownCalls = 0
    /\ firstShutdownBy = "none"
    /\ firstStored = Null
    /\ slotAtClose = Null

\* The module used as a library: no CLI process around it.
Init ==
    /\ ServerInit
    /\ cli = "none"
    /\ argv = Null
    /\ exitCode = NoExit
    /\ printed = <<>>
    /\ outFile = Absent
    /\ envPORT = Unset
    /\ PORT = Unset
    /\ listenPort = Unset

-----------------------------------------------------------------------------
(* shutdown(resolve), server.js:355-388.  cd is the value of completionData *)
(* and st the steps of the running handler at the point of the call.       *)

\* Shutdown whose close callback does not wait for the open connections.
ShutdownNoDrain(by, cd, st) ==
    /\ shutdownCalls' = shutdownCalls + 1
    /\ firstShutdownBy' = IF shutdownCalls = 0 THEN by ELSE firstShutdownBy
    /\ server' = IF server = "listening" THEN "closing" ELSE server
    /\ closeCbs' = closeCbs + 1
    /\ closeEmit' = TRUE
    /\ steps' = st \o <<"shutdown", "close">>
    /\ UNCHANGED <<promise, slotAtClose>>

Shutdown(by, cd, st) ==
    /\ shutdownCalls' = shutdownCalls + 1
    /\ firstShutdownBy' = IF shutdownCalls = 0 THEN by ELSE firstShutdownBy
    /\ IF server # "null"
       THEN \* server.close(cb): stop listening, run cb on the 'close' event
            /\ server' = IF server = "listening" THEN "closing" ELSE server
            /\ closeCbs' = closeCbs + 1
            /\ closeEmit' = (OpenConns = {})
            /\ steps' = st \o <<"shutdown", "close">>
            /\ UNCHANGED <<promise, slotAtClose>>
       ELSE /\ promise' = Resolve(promise, IF Truthy(cd) THEN cd ELSE EmptyObject)
            /\ slotAtClose' = IF promise.state = "pending" THEN cd ELSE slotAtClose
            /\ steps' = st \o <<"shutdown", "resolve">>
            /\ UNCHANGED <<server, closeCbs, closeEmit>>

\* ServerResolve without the clearTimeout.
ServerResolveNoClear(by, cd, st) ==
    /\ gateCalls' = gateCalls + 1
    /\ timeoutHandle' = timeoutHandle
    /\ Shutdown(by, cd, Append(st, "gate"))

\* The serverResolve closure, server.js:326-329.
ServerResolve(by, cd, st) ==
    /\ gateCalls' = gateCalls + 1
    /\ timeoutHandle' = ClearTimeout(timeoutHandle)
    /\ Shutdown(by, cd, st \o <<"gate", "clearTimeout">>)

-----------------------------------------------------------------------------
(* startServer, server.js:268-350 *)

\* LOG_LEVELS (logger.js:15-21).
LogLevels == [DEBUG |-> 0, INFO |-> 1, WARN |-> 2, ERROR |-> 3, FATAL |-> 4]

\* The options startServer gives to the Logger (lines 272-276):
\* `verbose: options.verbose !== false`, `minLevel: options.verbose ? 0 : 1`.
LoggerOptions(opts) ==
    [verbose |-> IF "verbose" \in DOMAIN opts THEN opts.verbose # FALSE
                 ELSE TRUE,
     minLevel |-> IF "verbose" \in DOMAIN opts /\ opts.verbose THEN 0 ELSE 1]

\* The constructor of Logger (logger.js:34-41):
\* `options.minLevel || LOG_LEVELS.INFO` takes INFO for a minLevel of 0.
NewLogger(o) ==
    [minLevel |-> IF o.minLevel # 0 THEN o.minLevel ELSE LogLevels.INFO,
     verbose |-> o.verbose # FALSE]

\* log() writes a message of this level (logger.js:75-77): it returns early
\* when the level is below the minimum.
Emitted(lg, level) == ~(LogLevels[level] < lg.minLevel)

\* The executor up to `await logger.initPromise` (lines 269-279).
StartServer(opts) ==
    /\ phase = "idle"
    /\ phase' = "init"
    /\ options' = opts
    /\ logger' = NewLogger(LoggerOptions(opts))
    /\ steps' = <<"start">>
    /\ response' = Null
    /\ request' = Null
    /\ UNCHANGED <<completionData, serverResolve, saveConfig, shutdownOnSave,
                   delayTimers, conn, writes, file, nreq, nsig,
                   firstStored>>
    /\ UNCHANGED gate
    /\ UNCHANGED <<page, timeout>>

\* `options.timeout || 15 * 60 * 1000` (line 302): the default replaces an
\* omitted timeout and every falsy one, of which 0 is the numeric one.
TimeoutOf(opts) ==
    IF "timeout" \in DOMAIN opts /\ opts.timeout # 0
    THEN opts.timeout ELSE DefaultTimeout

\* The rest of the executor (lines 281-340): store the configuration, call
\* app.listen, arm the timeout timer, install serverResolve.  The port is
\* `options.port || process.env.PORT || 3333` (line 300); none of the option
\* objects of the model has a port.
StartListen ==
    /\ phase = "init"
    /\ phase' = "started"
    /\ saveConfig' = IF options.saveConfig # Null THEN options.saveConfig ELSE saveConfig
    /\ shutdownOnSave' = IF options.shutdownOnSave # Null
                         THEN options.shutdownOnSave.v ELSE shutdownOnSave
    /\ uiConfig' = IF "uiConfig" \in DOMAIN options
                   THEN options.uiConfig ELSE uiConfig
    /\ UNCHANGED <<indexFile, reads, logger>>
    /\ server' = "binding"
    /\ timeout' = TimeoutOf(options)
    /\ timeoutHandle' = "armed"
    /\ serverResolve' = TRUE
    /\ steps' = <<"listen", "setTimeout", "install">>
    /\ response' = Null
    /\ request' = Null
    /\ UNCHANGED <<options, completionData, delayTimers, promise, closeCbs,
                   closeEmit, conn, writes, file, nreq, nsig, gateCalls,
                   shutdownCalls, firstShutdownBy, firstStored, slotAtClose>>
    /\ listenPort' = IF envPORT # Unset THEN envPORT ELSE Num(DefaultPort)
    /\ UNCHANGED <<cli, argv, exitCode, printed, outFile, envPORT, PORT>>

\* The 'listening' event of app.listen (lines 311-317).
Listening ==
    /\ server = "binding"
    /\ server' = "listening"
    /\ steps' = <<"listening">>
    /\ response' = Null
    /\ request' = Null
    /\ UNCHANGED <<completionData, delayTimers, conn, writes, file, nreq,
                   nsig, firstStored, timeoutHandle, closeCbs,
                   closeEmit, promise, gateCalls, shutdownCalls,
                   firstShutdownBy, slotAtClose>>
    /\ UNCHANGED config
    /\ UNCHANGED process

\* OnError leaving the timeout timer armed.
OnErrorNoClear(err) ==
    /\ timeoutHandle' = timeoutHandle
    /\ promise' = Reject(promise, err)
    /\ steps' = <<"reject">>
    /\ response' = Null
    /\ request' = Null
    /\ UNCHANGED <<completionData, delayTimers, conn, writes, file, nreq,
                   nsig, firstStored, closeCbs, closeEmit, gateCalls,
                   shutdownCalls, firstShutdownBy, slotAtClose>>
    /\ UNCHANGED config
    /\ UNCHANGED process

\* The listener of server.on('error') (lines 332-340).
OnError(err) ==
    /\ timeoutHandle' = ClearTimeout(timeoutHandle)
    /\ promise' = Reject(promise, err)
    /\ steps' = <<"clearTimeout", "reject">>
    /\ response' = Null
    /\ request' = Null
    /\ UNCHANGED <<completionData, delayTimers, conn, writes, file, nreq,
                   nsig, firstStored, closeCbs, closeEmit, gateCalls,
                   shutdownCalls, firstShutdownBy, slotAtClose>>
    /\ UNCHANGED config
    /\ UNCHANGED process

\* The 'error' event right after listen: the port could not be bound.
BindFailure ==
    /\ server = "binding"
    /\ server' = "failed"
    /\ OnError(BindError)

\* An 'error' event of the listening server (a failed accept).
AcceptFailure ==
    /\ Quiet
    /\ server = "listening"
    /\ server' = server
    /\ OnError(AcceptError)

\* server.on('error') (lines 332-340): a bind failure right after listen, or
\* an accept error of the listening server.
ServerError == BindFailure \/ AcceptFailure

\* TimeoutFire without the call of shutdown.
TimeoutFireNoShutdown ==
    /\ Quiet
    /\ timeoutHandle = "armed"
    /\ timeoutHandle' = "fired"
    /\ steps' = <<"timeout">>
    /\ response' = Null
    /\ request' = Null
    /\ UNCHANGED <<completionData, delayTimers, conn, writes, file, nreq,
                   nsig, firstStored, server, closeCbs, closeEmit,
                   promise, gateCalls, shutdownCalls, firstShutdownBy,
                   slotAtClose>>
    /\ UNCHANGED config
    /\ UNCHANGED process

\* The timeout callback (lines 320-323).
TimeoutFire ==
    /\ Quiet
    /\ timeoutHandle = "armed"
    /\ timeoutHandle' = "fired"
    /\ gateCalls' = gateCalls
    /\ Shutdown("timer", completionData, <<"timeout">>)
    /\ response' = Null
    /\ request' = Null
    /\ UNCHANGED <<completionData, delayTimers, conn, writes, file, nreq,
                   nsig, firstStored>>
    /\ UNCHANGED config
    /\ UNCHANGED process

\* process.on('SIGINT') / process.on('SIGTERM') (lines 393-405), for a signal
\* delivered once startServer has created the logger.
Signal(sig) ==
    /\ Quiet
    /\ phase # "idle"
    /\ nsig < MaxSignals
    /\ nsig' = nsig + 1
    /\ IF serverResolve
       THEN ServerResolve("signal", completionData, <<sig>>)
       ELSE /\ steps' = <<sig>>
            /\ UNCHANGED gate
    /\ response' = Null
    /\ request' = Null
    /\ UNCHANGED <<completionData, delayTimers, conn, writes, file, nreq,
                   firstStored>>
    /\ UNCHANGED config
    /\ UNCHANGED process

\* What n runs of the close callback print: each one
\* console.log(`\n📋 Log file: ...`) (line 365), an empty line and a line.
RECURSIVE LogFileLines(_)
LogFileLines(n) ==
    IF n = 0 THEN <<>> ELSE <<EmptyLine, LogFileLine>> \o LogFileLines(n - 1)

\* ServerClosed resolving with `completionData || {}` as the else branch of
\* shutdown does.
ServerClosedEmpty ==
    /\ closeEmit
    /\ closeEmit' = FALSE
    /\ closeCbs' = 0
    /\ server' = IF server = "closing" THEN "closed" ELSE server
    /\ IF closeCbs > 0
       THEN /\ promise' = Resolve(promise, IF Truthy(completionData)
                                           THEN completionData
                                           ELSE EmptyObject)
            /\ slotAtClose' = IF promise.state = "pending"
                              THEN completionData ELSE slotAtClose
            /\ steps' = <<"closed", "resolve">>
       ELSE /\ steps' = <<"closed">>
            /\ UNCHANGED <<promise, slotAtClose>>
    /\ response' = Null
    /\ request' = Null
    /\ UNCHANGED <<completionData, delayTimers, conn, writes, file, nreq,
                   nsig, firstStored, timeoutHandle, gateCalls,
                   shutdownCalls, firstShutdownBy>>
    /\ UNCHANGED config
    /\ printed' = printed \o LogFileLines(closeCbs)
    /\ UNCHANGED <<cli, argv, exitCode, outFile, ports>>

\* The callback passed to server.close (lines 359-383), run for every pending
\* registration when the server emits 'close'.
ServerClosed ==
    /\ closeEmit
    /\ closeEmit' = FALSE
    /\ closeCbs' = 0
    /\ server' = IF server = "closing" THEN "closed" ELSE server
    /\ IF closeCbs > 0
       THEN /\ promise' = Resolve(promise, IF Truthy(completionData)
                                           THEN completionData
                                           ELSE DefaultPayload)
            /\ slotAtClose' = IF promise.state = "pending"
                              THEN completionData ELSE slotAtClose
            /\ steps' = <<"closed", "resolve">>
       ELSE /\ steps' = <<"closed">>
            /\ UNCHANGED <<promise, slotAtClose>>
    /\ response' = Null
    /\ request' = Null
    /\ UNCHANGED <<completionData, delayTimers, conn, writes, file, nreq,
                   nsig, firstStored, timeoutHandle, gateCalls,
                   shutdownCalls, firstShutdownBy>>
    /\ UNCHANGED config
    /\ printed' = printed \o LogFileLines(closeCbs)
    /\ UNCHANGED <<cli, argv, exitCode, outFile, ports>>

-----------------------------------------------------------------------------
(* HTTP: connections and the request handlers *)

\* A client connects; the listening server accepts.  Connections are
\* interchangeable, so the lowest unused one is taken.
Connect(c) ==
    /\ Quiet
    /\ server = "listening"
    /\ conn[c] = "unused"
    /\ \A d \in Conns : d < c => conn[d] # "unused"
    /\ conn' = [conn EXCEPT ![c] = "open"]
    /\ steps' = <<"connect">>
    /\ response' = Null
    /\ request' = Null
    /\ UNCHANGED <<completionData, delayTimers, writes, file, nreq, nsig,
                   firstStored>>
    /\ UNCHANGED gate
    /\ UNCHANGED config
    /\ UNCHANGED process

\* A connection ends (client close, abort or keep-alive expiry) and frees its
\* slot.  The last connection of a server that has been closed queues its
\* 'close' event.
Disconnect(c) ==
    /\ Quiet
    /\ conn[c] = "open"
    /\ conn' = [conn EXCEPT ![c] = "unused"]
    /\ closeEmit' = (server = "closing" /\ OpenConns = {c})
    /\ steps' = <<"disconnect">>
    /\ response' = Null
    /\ request' = Null
    /\ UNCHANGED <<completionData, delayTimers, writes, file, nreq, nsig,
                   firstStored, timeoutHandle, server, closeCbs,
                   promise, gateCalls, shutdownCalls, firstShutdownBy,
                   slotAtClose>>
    /\ UNCHANGED config
    /\ UNCHANGED process

\* !buffer for the buffer field of a request body
NoBuffer(body) == "buffer" \notin DOMAIN body \/ body.buffer = ""

\* the metadata field of a request body (undefined when absent)
MetadataOf(body) == IF "metadata" \in DOMAIN body THEN body.metadata ELSE Null

\* A request can be delivered on an open connection with no request in flight.
CanRequest(c) ==
    /\ Quiet
    /\ conn[c] = "open"
    /\ writes[c] = Null
    /\ reads[c] = Null
    /\ nreq < MaxReqs

\* PostComplete resolving the gate before it responds.
PostCompleteGateFirst(c, body) ==
    /\ CanRequest(c)
    /\ nreq' = nreq + 1
    /\ request' = body
    /\ completionData' = body
    /\ firstStored' = IF firstStored = Null THEN body ELSE firstStored
    /\ response' = [code |-> 200, body |-> [status |-> "received", success |-> TRUE]]
    /\ gateCalls' = gateCalls + 1
    /\ timeoutHandle' = ClearTimeout(timeoutHandle)
    /\ shutdownCalls' = shutdownCalls + 1
    /\ firstShutdownBy' = IF shutdownCalls = 0 THEN "complete" ELSE firstShutdownBy
    /\ server' = IF server = "listening" THEN "closing" ELSE server
    /\ closeCbs' = closeCbs + 1
    /\ closeEmit' = (OpenConns = {})
    /\ steps' = <<"complete", "store", "gate", "clearTimeout", "shutdown",
                  "close", "respond">>
    /\ UNCHANGED <<promise, slotAtClose>>
    /\ UNCHANGED <<delayTimers, conn, writes, file, nsig>>
    /\ UNCHANGED config
    /\ UNCHANGED process

\* app.post('/api/complete'), server.js:49-76.
PostComplete(c, body) ==
    /\ CanRequest(c)
    /\ nreq' = nreq + 1
    /\ request' = body
    /\ completionData' = body
    /\ firstStored' = IF firstStored = Null THEN body ELSE firstStored
    /\ response' = [code |-> 200, body |-> [status |-> "received", success |-> TRUE]]
    /\ IF serverResolve
       THEN ServerResolve("complete", body, <<"complete", "store", "respond">>)
       ELSE /\ steps' = <<"complete", "store", "respond">>
            /\ UNCHANGED gate
    /\ UNCHANGED <<delayTimers, conn, writes, file, nsig>>
    /\ UNCHANGED config
    /\ UNCHANGED process

\* SaveResponse returning the buffer in every mode.
SaveResponseAlways(body, savedPath) ==
    [success |-> TRUE,
     saved |-> [buffer |-> body.buffer, metadata |-> MetadataOf(body)],
     filePath |-> savedPath,
     mode |-> saveConfig.mode]

\* The body of the 200 response of /api/save (server.js:132-140).
SaveResponse(body, savedPath) ==
    LET shouldReturn == saveConfig.mode = "return" \/ saveConfig.mode = "both"
    IN  [success |-> TRUE,
         saved |-> IF shouldReturn
                   THEN [buffer |-> body.buffer, metadata |-> MetadataOf(body)]
                   ELSE Null,
         filePath |-> savedPath,
         mode |-> saveConfig.mode]

\* SaveRespond storing the payload and scheduling the gate signal before it
\* responds.
SaveRespondGateFirst(body, savedPath, st) ==
    LET payload == [success |-> TRUE, text |-> body.buffer,
                    metadata |-> IF MetadataOf(body) # Null
                                 THEN MetadataOf(body) ELSE EmptyObject,
                    savedVia |-> "save-button", filePath |-> savedPath]
    IN  /\ response' = [code |-> 200, body |-> SaveResponse(body, savedPath)]
        /\ IF shutdownOnSave /\ serverResolve
           THEN /\ completionData' = payload
                /\ firstStored' = IF firstStored = Null THEN payload ELSE firstStored
                /\ delayTimers' = delayTimers + 1
                /\ steps' = st \o <<"store", "setTimeout", "respond">>
           ELSE /\ steps' = Append(st, "respond")
                /\ UNCHANGED <<completionData, firstStored, delayTimers>>

\* SaveRespond storing the payload and scheduling the gate signal whatever
\* shutdownOnSave is.
SaveRespondAlwaysShutdown(body, savedPath, st) ==
    LET payload == [success |-> TRUE, text |-> body.buffer,
                    metadata |-> IF MetadataOf(body) # Null
                                 THEN MetadataOf(body) ELSE EmptyObject,
                    savedVia |-> "save-button", filePath |-> savedPath]
    IN  /\ response' = [code |-> 200, body |-> SaveResponse(body, savedPath)]
        /\ completionData' = payload
        /\ firstStored' = IF firstStored = Null THEN payload ELSE firstStored
        /\ delayTimers' = delayTimers + 1
        /\ steps' = st \o <<"respond", "store", "setTimeout">>

\* SaveRespond storing the metadata as posted, undefined when absent.
SaveRespondRawMetadata(body, savedPath, st) ==
    LET payload == [success |-> TRUE, text |-> body.buffer,
                    metadata |-> MetadataOf(body),
                    savedVia |-> "save-button", filePath |-> savedPath]
    IN  /\ response' = [code |-> 200, body |-> SaveResponse(body, savedPath)]
        /\ IF shutdownOnSave /\ serverResolve
           THEN /\ completionData' = payload
                /\ firstStored' = IF firstStored = Null THEN payload ELSE firstStored
                /\ delayTimers' = delayTimers + 1
                /\ steps' = st \o <<"respond", "store", "setTimeout">>
           ELSE /\ steps' = Append(st, "respond")
                /\ UNCHANGED <<completionData, firstStored, delayTimers>>

\* /api/save from the success response on (server.js:132-161): respond 200,
\* then with shutdownOnSave store the payload and schedule the 100 ms timer.
SaveRespond(body, savedPath, st) ==
    LET payload == [success |-> TRUE, text |-> body.buffer,
                    metadata |-> IF MetadataOf(body) # Null
                                 THEN MetadataOf(body) ELSE EmptyObject,
                    savedVia |-> "save-button", filePath |-> savedPath]
    IN  /\ response' = [code |-> 200, body |-> SaveResponse(body, savedPath)]
        /\ IF shutdownOnSave /\ serverResolve
           THEN /\ completionData' = payload
                /\ firstStored' = IF firstStored = Null THEN payload ELSE firstStored
                /\ delayTimers' = delayTimers + 1
                /\ steps' = st \o <<"respond", "store", "setTimeout">>
           ELSE /\ steps' = Append(st, "respond")
                /\ UNCHANGED <<completionData, firstStored, delayTimers>>

\* A request whose body express.json() cannot parse: the route handler is
\* not reached and the error handler (server.js:250-263) answers 500.
PostMalformed(c) ==
    /\ CanRequest(c)
    /\ nreq' = nreq + 1
    /\ request' = Malformed
    /\ response' = [code |-> 500,
                    body |-> [status |-> "error", message |-> "Unexpected token"]]
    /\ steps' = <<"error", "respond">>
    /\ UNCHANGED <<completionData, firstStored, delayTimers, writes, conn,
                   file, nsig>>
    /\ UNCHANGED gate
    /\ UNCHANGED config
    /\ UNCHANGED process

\* RejectNoBuffer going on to schedule the 100 ms gate signal.
RejectNoBufferSignals ==
    /\ response' = [code |-> 400,
                    body |-> [success |-> FALSE, error |-> "No buffer provided"]]
    /\ delayTimers' = IF shutdownOnSave /\ serverResolve
                      THEN delayTimers + 1 ELSE delayTimers
    /\ steps' = <<"save", "respond", "setTimeout">>
    /\ UNCHANGED <<completionData, firstStored, writes>>

\* RejectNoBuffer recording the failed request in the payload slot.
RejectNoBufferStores ==
    /\ response' = [code |-> 400,
                    body |-> [success |-> FALSE, error |-> "No buffer provided"]]
    /\ completionData' = [success |-> FALSE, error |-> "No buffer provided"]
    /\ steps' = <<"save", "store", "respond">>
    /\ UNCHANGED <<firstStored, delayTimers, writes>>

\* The early return of /api/save for a falsy buffer (server.js:86-94).
RejectNoBuffer ==
    /\ response' = [code |-> 400,
                    body |-> [success |-> FALSE, error |-> "No buffer provided"]]
    /\ steps' = <<"save", "respond">>
    /\ UNCHANGED <<completionData, firstStored, delayTimers, writes>>

\* app.post('/api/save'), server.js:82-107, up to the await of fs.writeFile
\* (or to the end when nothing is written).
PostSave(c, body) ==
    /\ CanRequest(c)
    /\ nreq' = nreq + 1
    /\ request' = body
    /\ IF NoBuffer(body)
       THEN RejectNoBuffer
       ELSE IF saveConfig.mode \in {"disk", "both"} /\ saveConfig.path # NullStr
       THEN /\ writes' = [writes EXCEPT ![c] = [body |-> body, landed |-> FALSE]]
            /\ response' = Null
            /\ steps' = <<"save", "writeFile">>
            /\ UNCHANGED <<completionData, firstStored, delayTimers>>
       ELSE /\ SaveRespond(body, NullStr, <<"save">>)
            /\ UNCHANGED writes
    /\ UNCHANGED <<conn, file, nsig>>
    /\ UNCHANGED gate
    /\ UNCHANGED config
    /\ UNCHANGED process

\* WriteFailed going on, after its 500 response, to store a payload and to
\* schedule the 100 ms gate signal as the success path does.
WriteFailedProceeds(body) ==
    /\ response' = [code |-> 500,
                    body |-> [success |-> FALSE, error |-> "Failed to write file"]]
    /\ IF shutdownOnSave /\ serverResolve
       THEN /\ completionData' = [success |-> TRUE, text |-> body.buffer]
            /\ firstStored' = IF firstStored = Null
                              THEN [success |-> TRUE, text |-> body.buffer]
                              ELSE firstStored
            /\ delayTimers' = delayTimers + 1
            /\ steps' = <<"writeFailed", "respond", "store", "setTimeout">>
       ELSE /\ steps' = <<"writeFailed", "respond">>
            /\ UNCHANGED <<completionData, firstStored, delayTimers>>
    /\ UNCHANGED file

\* The catch of the file write (server.js:118-129): respond 500 and return.
WriteFailed(body) ==
    /\ response' = [code |-> 500,
                    body |-> [success |-> FALSE, error |-> "Failed to write file"]]
    /\ steps' = <<"writeFailed", "respond">>
    /\ UNCHANGED <<file, completionData, firstStored, delayTimers>>

\* fs.writeFile, running in the thread pool, stores the buffer of a pending
\* /api/save in the file (server.js:109).  The non-empty buffers of
\* SaveBodies have one character each, so that a write leaves its buffer as
\* the whole content whatever the file held; WriteOpens and WriteData model
\* the two steps of the write for buffers of different lengths.  The
\* handler resumes later, in WriteDone.
WriteLands(c) ==
    /\ Alive
    /\ writes[c] # Null
    /\ ~writes[c].landed
    /\ writes' = [writes EXCEPT ![c].landed = TRUE]
    /\ file' = writes[c].body.buffer
    /\ steps' = <<"disk">>
    /\ response' = Null
    /\ request' = Null
    /\ UNCHANGED <<completionData, delayTimers, conn, nreq, nsig,
                   firstStored>>
    /\ UNCHANGED gate
    /\ UNCHANGED config
    /\ UNCHANGED process

\* WriteDone without the assignment savedPath = saveConfig.path.
WriteDoneNoPath(c, ok) ==
    /\ Quiet
    /\ writes[c] # Null
    /\ ok = writes[c].landed
    /\ writes' = [writes EXCEPT ![c] = Null]
    /\ request' = writes[c].body
    /\ IF ok
       THEN /\ SaveRespond(writes[c].body, NullStr, <<"written">>)
            /\ UNCHANGED file
       ELSE WriteFailed(writes[c].body)
    /\ UNCHANGED <<conn, nreq, nsig>>
    /\ UNCHANGED gate
    /\ UNCHANGED config
    /\ UNCHANGED process

\* The /api/save handler resumes after await fs.writeFile (server.js:109-161):
\* the write succeeded (ok: it has reached the file) or threw.
WriteDone(c, ok) ==
    /\ Quiet
    /\ writes[c] # Null
    /\ ok = writes[c].landed
    /\ writes' = [writes EXCEPT ![c] = Null]
    /\ request' = writes[c].body
    /\ IF ok
       THEN /\ SaveRespond(writes[c].body, saveConfig.path, <<"written">>)
            /\ UNCHANGED file
       ELSE WriteFailed(writes[c].body)
    /\ UNCHANGED <<conn, nreq, nsig>>
    /\ UNCHANGED gate
    /\ UNCHANGED config
    /\ UNCHANGED process

\* A 100 ms timer of a shutdown-on-save request fires (server.js:158-160).
DelayFire ==
    /\ Quiet
    /\ delayTimers > 0
    /\ delayTimers' = delayTimers - 1
    /\ ServerResolve("delay", completionData, <<"delay">>)
    /\ response' = Null
    /\ request' = Null
    /\ UNCHANGED <<completionData, conn, writes, file, nreq, nsig,
                   firstStored>>
    /\ UNCHANGED config
    /\ UNCHANGED process

-----------------------------------------------------------------------------
(* The CLI, src/voidwriter.js: main() builds the UI bundle if it is missing, *)
(* calls startServer and awaits its promise, then opens the browser, prints  *)
(* the result and exits.                                                     *)

\* The command lines told apart: whether dist/ is missing (and --dev is not
\* given), whether the browser is to be opened (neither --no-open nor
\* --headless), whether --output names a file, and the value of --port.
\* --verbose is not given.
Argv == [needBuild : BOOLEAN, open : BOOLEAN, output : BOOLEAN, port : Ports]

\* The uiConfig main() passes to startServer when none of --title,
\* --main-text and --sub-text is given (lines 138-142).
CliUiConfig == [title |-> Null, mainText |-> Null, subText |-> Null]

\* The options main() passes to startServer (lines 145-149): timeout, verbose
\* and uiConfig, no saveConfig and no shutdownOnSave.
CliOptions ==
    [saveConfig |-> Null, shutdownOnSave |-> Null, uiConfig |-> CliUiConfig,
     verbose |-> FALSE]

\* The module state when the CLI process has parsed its command line.
InitCli ==
    /\ ServerInit
    /\ cli = "main"
    /\ argv \in Argv
    /\ exitCode = NoExit
    /\ printed = <<>>
    /\ outFile = Absent
    /\ envPORT = Unset
    /\ PORT = Unset
    /\ listenPort = Unset

\* The characters of the texts of the model.
Chars(text) ==
    CASE text = "" -> <<>>
      [] text = "a" -> <<"a">>
      [] text = "b" -> <<"b">>
      [] text = "a b" -> <<"a", " ", "b">>
      [] text = " a  b" -> <<" ", "a", " ", " ", "b">>

\* The number of maximal runs of non-blank characters in cs; inWord tells
\* whether the character before cs belongs to such a run.
RECURSIVE Runs(_, _)
Runs(cs, inWord) ==
    IF cs = <<>> THEN 0
    ELSE IF Head(cs) = " " THEN Runs(Tail(cs), FALSE)
    ELSE (IF inWord THEN 0 ELSE 1) + Runs(Tail(cs), TRUE)

\* (text).split(/\s+/).filter(w => w.length > 0).length: the pieces between
\* runs of white space that are not empty.
WordCount(text) == Runs(Chars(text), FALSE)

\* The bodies posted to /api/complete in a CLI session: those of
\* CompleteBodies, a body whose metadata has no wordCount and a body
\* without metadata.
CliBodies ==
    CompleteBodies \cup
    { [success |-> TRUE, text |-> "a b", metadata |-> [cancelled |-> FALSE]],
      [success |-> TRUE, text |-> " a  b"] }

\* The output object main() builds from the result (lines 166-174).
Output(result) ==
    LET text == IF "text" \in DOMAIN result /\ result.text # ""
                THEN result.text ELSE ""
    IN  [success |-> IF "success" \in DOMAIN result
                     THEN result.success # FALSE ELSE TRUE,
         text |-> text,
         metadata |-> IF "metadata" \in DOMAIN result
                      THEN result.metadata
                      ELSE [wordCount |-> WordCount(text), sessionDuration |-> 0]]

\* main() from its start to `await startServer(...)` (lines 101-149): a
\* failed build exits with code 1 before the server is started; else
\* process.env.PORT is assigned from argv.port (line 123), which stores the
\* number as a string.
CliMain(buildOk) ==
    /\ cli = "main"
    /\ IF argv.needBuild /\ ~buildOk
       THEN /\ cli' = "exited"
            /\ exitCode' = 1
            /\ UNCHANGED <<session, envPORT>>
       ELSE /\ envPORT' = Str(argv.port)
            /\ StartServer(CliOptions)
            /\ cli' = "awaiting"
            /\ UNCHANGED exitCode
    /\ UNCHANGED <<argv, printed, outFile, PORT, listenPort>>

\* Lines 176-190: print the result, or with --output ask for the fs/promises
\* module and register the callback that will write the file, and then call
\* process.exit(0).  The callback of the un-awaited import(...).then(...)
\* can run only in a later turn of the event loop; process.exit ends the
\* process in this one, so the write is never started.
Emit(result) ==
    /\ printed' = IF argv.output
                  THEN printed
                  ELSE Append(printed, ResultLine(Output(result)))
    /\ outFile' = outFile
    /\ exitCode' = 0
    /\ cli' = "exited"
    /\ UNCHANGED <<argv, ports>>
    /\ UNCHANGED session

\* main() resumes with the result of startServer (lines 145-154) and runs
\* to `await open(...)`, or to the exit when the browser is not to be opened.
CliResume ==
    /\ cli = "awaiting"
    /\ promise.state = "resolved"
    /\ IF argv.open
       THEN /\ cli' = "opening"
            /\ UNCHANGED <<argv, exitCode, printed, outFile, ports>>
            /\ UNCHANGED session
       ELSE Emit(promise.value)

\* `await open(...)` has settled (lines 153-160); a failure is caught and
\* main() goes on as after a success.
CliOpened ==
    /\ cli = "opening"
    /\ Emit(promise.value)

\* The catch block of main() (lines 192-198) for a rejected startServer:
\* the error goes to stderr and the process exits with code 1.
CliCatch ==
    /\ cli = "awaiting"
    /\ promise.state = "rejected"
    /\ cli' = "exited"
    /\ exitCode' = 1
    /\ UNCHANGED <<argv, printed, outFile, ports>>
    /\ UNCHANGED session

-----------------------------------------------------------------------------

Next ==
    \/ \E opts \in Options : StartServer(opts) /\ UNCHANGED process
    \/ StartListen
    \/ Listening
    \/ ServerError
    \/ TimeoutFire
    \/ \E sig \in {"SIGINT", "SIGTERM"} : Signal(sig)
    \/ ServerClosed
    \/ \E c \in Conns : Connect(c)
    \/ \E c \in Conns : Disconnect(c)
    \/ \E c \in Conns, body \in CompleteBodies : PostComplete(c, body)
    \/ \E c \in Conns, body \in SaveBodies : PostSave(c, body)
    \/ \E c \in Conns : WriteLands(c)
    \/ \E c \in Conns, ok \in BOOLEAN : WriteDone(c, ok)
    \/ \E c \in Conns : PostMalformed(c)
    \/ DelayFire

Spec == Init /\ [][Next]_vars

\* The server run by the CLI.  With the options of main() no /api/save
\* writes a file or schedules a 100 ms timer.
NextCli ==
    \/ \E buildOk \in BOOLEAN : CliMain(buildOk)
    \/ StartListen
    \/ Listening
    \/ ServerError
    \/ TimeoutFire
    \/ \E sig \in {"SIGINT", "SIGTERM"} : Signal(sig)
    \/ ServerClosed
    \/ \E c \in Conns : Connect(c)
    \/ \E c \in Conns : Disconnect(c)
    \/ \E c \in Conns, body \in CliBodies : PostComplete(c, body)
    \/ \E c \in Conns, body \in SaveBodies : PostSave(c, body)
    \/ \E c \in Conns : PostMalformed(c)
    \/ CliResume
    \/ CliOpened
    \/ CliCatch

SpecCli == InitCli /\ [][NextCli]_vars

\* The CLI process with the server module it imports, src/server.js.  The
\* import (voidwriter.js:22) evaluates the module, and with it the constant
\* PORT, before any statement of voidwriter.js runs.
InitRootCli ==
    /\ ServerInit
    /\ cli = "import"
    /\ argv \in Argv
    /\ exitCode = NoExit
    /\ printed = <<>>
    /\ outFile = Absent
    /\ envPORT \in {Unset, Str(5000)}
    /\ PORT = Unset
    /\ listenPort = Unset

\* src/server.js:20, `const PORT = process.env.PORT || 3333`.
LoadServer ==
    /\ cli = "import"
    /\ cli' = "main"
    /\ PORT' = IF envPORT # Unset THEN envPORT ELSE Num(DefaultPort)
    /\ UNCHANGED <<argv, exitCode, printed, outFile, envPORT, listenPort>>
    /\ UNCHANGED session

\* main() up to `await startServer(...)` with startServer of src/server.js
\* (lines 103-141), which runs to its end within the call: app.listen(PORT),
\* setTimeout, the installation of serverResolve and of the 'error' listener.
CliMainRoot(buildOk) ==
    /\ cli = "main"
    /\ IF argv.needBuild /\ ~buildOk
       THEN /\ cli' = "exited"
            /\ exitCode' = 1
            /\ UNCHANGED <<session, envPORT, listenPort>>
       ELSE /\ envPORT' = Str(argv.port)
            /\ cli' = "awaiting"
            /\ phase' = "started"
            /\ options' = CliOptions
            /\ uiConfig' = CliUiConfig
            /\ timeout' = TimeoutOf(CliOptions)
            /\ server' = "binding"
            /\ listenPort' = PORT
            /\ timeoutHandle' = "armed"
            /\ serverResolve' = TRUE
            /\ steps' = <<"start", "listen", "setTimeout", "install">>
            /\ response' = Null
            /\ request' = Null
            /\ UNCHANGED <<completionData, saveConfig, shutdownOnSave,
                           delayTimers, promise, closeCbs, closeEmit, conn,
                           writes, file, nreq, nsig, gateCalls, shutdownCalls,
                           firstShutdownBy, firstStored, slotAtClose, exitCode,
                           indexFile, reads, logger>>
    /\ UNCHANGED <<argv, printed, outFile, PORT>>

\* The index document as built, and an asset of the bundle.
IndexHtml == BuiltIndex
AppJs == <<Piece("app.js")>>

\* A response body that is a document, as opposed to a JSON object.
Html(doc) == [html |-> doc]

\* A text of the UI configuration, as the sequence of its characters.
Text(cs) == [chars |-> cs]

\* The script element with window.voidwriterConfig = JSON.stringify(cfg):
\* every field of cfg is serialised, a null as null and a text as its
\* characters.
ConfigScript(cfg) == [tag |-> "<script>", config |-> cfg]

\* The tags of the pieces html[from..to], as they stand in the document.
RECURSIVE Tags(_, _, _)
Tags(html, from, to) ==
    IF from > to THEN <<>>
    ELSE <<html[from].tag>> \o Tags(html, from + 1, to)

\* What String.prototype.replace makes of the characters cs of a replacement
\* string: $$ stands for one $, $& for the matched text, $` for the text in
\* front of the match and $' for the text behind it; a $ in front of
\* anything else, and every other character, stands for itself.
RECURSIVE Expand(_, _, _, _)
Expand(cs, before, match, after) ==
    IF cs = <<>> THEN <<>>
    ELSE IF Head(cs) = "$" /\ Len(cs) >= 2 /\ cs[2] \in {"$", "&", "`", "'"}
    THEN (CASE cs[2] = "$" -> <<"$">>
            [] cs[2] = "&" -> match
            [] cs[2] = "`" -> before
            [] cs[2] = "'" -> after)
         \o Expand(SubSeq(cs, 3, Len(cs)), before, match, after)
    ELSE <<Head(cs)>> \o Expand(Tail(cs), before, match, after)

\* The script as it arrives in the document: the replacement patterns in
\* the serialised texts are expanded.
Replacement(cfg, before, match, after) ==
    IF cfg = EmptyObject THEN ConfigScript(cfg)
    ELSE ConfigScript([f \in DOMAIN cfg |->
             IF cfg[f] = Null THEN Null
             ELSE Text(Expand(cfg[f].chars, before, match, after))])

\* The place of the first </head> in html, 0 when there is none.
HeadEnd(html) ==
    IF \E i \in 1..Len(html) : html[i] = Piece("</head>")
    THEN CHOOSE k \in 1..Len(html) :
            /\ html[k] = Piece("</head>")
            /\ \A j \in 1..(k - 1) : html[j] # Piece("</head>")
    ELSE 0

\* html.replace('</head>', configScript + '</head>'): the replacement goes
\* in the place of the first </head>; a document without one stays as it is.
Inject(html, cfg) ==
    IF HeadEnd(html) > 0
    THEN LET i == HeadEnd(html)
         IN  SubSeq(html, 1, i - 1)
                 \o <<Replacement(cfg, Tags(html, 1, i - 1), <<"</head>">>,
                                  Tags(html, i + 1, Len(html)))>>
                 \o SubSeq(html, i, Len(html))
    ELSE html

\* The paths requested with GET: the root, the index document by its file
\* name, an asset of the bundle, and the health check.
GetPaths == {"/", "/index.html", "/assets/app.js", "/api/health"}

\* GET in src/server.js.  /api/health has its own route (lines 47-49).  Every
\* other GET is taken by app.get('*') (lines 56-77), which is registered
\* before express.static (lines 80-87) and never calls next: it reads
\* dist/index.html and sends it with the config injected, or answers 500
\* when the read fails.  The read and the response are one step: the handler
\* shares no variable with another handler.
GetRoot(c, path, readOk) ==
    /\ CanRequest(c)
    /\ nreq' = nreq + 1
    /\ request' = [method |-> "GET", path |-> path]
    /\ steps' = <<"get", "respond">>
    /\ response' =
          IF path = "/api/health"
          THEN [code |-> 200, by |-> "route", body |-> [status |-> "ok"]]
          ELSE IF readOk
          THEN [code |-> 200, by |-> "route",
                body |-> Html(Inject(indexFile, uiConfig))]
          ELSE [code |-> 500, by |-> "route",
                body |-> [error |-> "Failed to load page"]]
    /\ UNCHANGED <<completionData, delayTimers, conn, writes, file, nsig,
                   firstStored>>
    /\ UNCHANGED gate
    /\ UNCHANGED config
    /\ UNCHANGED process

\* The session of the root server, whose completion gate, timeout, 'error'
\* listener and /api/complete handler are those of the writer server.
NextRootCli ==
    \/ LoadServer
    \/ \E buildOk \in BOOLEAN : CliMainRoot(buildOk)
    \/ Listening
    \/ BindFailure
    \/ TimeoutFire
    \/ ServerClosed
    \/ \E c \in Conns : Connect(c)
    \/ \E c \in Conns : Disconnect(c)
    \/ \E c \in Conns, body \in CliBodies : PostComplete(c, body)
    \/ \E c \in Conns, path \in GetPaths, readOk \in BOOLEAN :
          GetRoot(c, path, readOk)
    \/ CliResume
    \/ CliOpened
    \/ CliCatch

SpecRootCli == InitRootCli /\ [][NextRootCli]_vars

\* The options a CLI with --save-mode both, --save-path and
\* --shutdown-on-save passes to startServer.
WriterCliOptions ==
    [saveConfig |-> [mode |-> "both", path |-> SavePath],
     shutdownOnSave |-> [v |-> TRUE], uiConfig |-> CliUiConfig]

\* main() up to `await startServer(...)` for that command line.
CliMainWriter(buildOk) ==
    /\ cli = "main"
    /\ IF argv.needBuild /\ ~buildOk
       THEN /\ cli' = "exited"
            /\ exitCode' = 1
            /\ UNCHANGED <<session, envPORT>>
       ELSE /\ envPORT' = Str(argv.port)
            /\ StartServer(WriterCliOptions)
            /\ cli' = "awaiting"
            /\ UNCHANGED exitCode
    /\ UNCHANGED <<argv, printed, outFile, PORT, listenPort>>

\* A CLI session with shutdown-on-save that no signal and no server error
\* interrupts: it ends by a save or by its timeout.
NextWriterCli ==
    \/ \E buildOk \in BOOLEAN : CliMainWriter(buildOk)
    \/ StartListen
    \/ Listening
    \/ TimeoutFire
    \/ ServerClosed
    \/ \E c \in Conns : Connect(c)
    \/ \E c \in Conns : Disconnect(c)
    \/ \E c \in Conns, body \in SaveBodies : PostSave(c, body)
    \/ \E c \in Conns : WriteLands(c)
    \/ \E c \in Conns, ok \in BOOLEAN : WriteDone(c, ok)
    \/ DelayFire
    \/ CliResume
    \/ CliOpened

SpecWriterCli == InitCli /\ [][NextWriterCli]_vars

\* A session no client sends a request to: connections may be opened and
\* ended and signals delivered, but no request arrives and no accept fails.
NextIdle ==
    \/ \E opts \in Options : StartServer(opts) /\ UNCHANGED process
    \/ StartListen
    \/ Listening
    \/ BindFailure
    \/ TimeoutFire
    \/ \E sig \in {"SIGINT", "SIGTERM"} : Signal(sig)
    \/ ServerClosed
    \/ \E c \in Conns : Connect(c)
    \/ \E c \in Conns : Disconnect(c)

\* An armed timer fires (setTimeout), a queued 'close' event is emitted
\* (process.nextTick), and every open connection ends at some time.
SpecIdle ==
    /\ Init
    /\ [][NextIdle]_vars
    /\ WF_vars(TimeoutFire)
    /\ WF_vars(ServerClosed)
    /\ \A c \in Conns : WF_vars(Disconnect(c))

-----------------------------------------------------------------------------
(* Properties *)

\* Position of the first occurrence of x in the sequence q (0 when absent).
FirstPos(q, x) ==
    IF \E i \in 1..Len(q) : q[i] = x
    THEN CHOOSE i \in 1..Len(q) : q[i] = x /\ \A j \in 1..(i - 1) : q[j] # x
    ELSE 0

Has(q, x) == FirstPos(q, x) > 0

\* In q, every occurrence of y comes after an occurrence of x.
Before(q, x, y) == Has(q, y) => (Has(q, x) /\ FirstPos(q, x) < FirstPos(q, y))

\* A cancellation result: success=false and metadata.cancelled=true.
IsCancellation(p) ==
    /\ "success" \in DOMAIN p /\ p.success = FALSE
    /\ "metadata" \in DOMAIN p
    /\ "cancelled" \in DOMAIN p.metadata /\ p.metadata.cancelled = TRUE

\* C1: completionData is set at most once per session: once a payload has
\* been stored no later request replaces it, and the result of startServer
\* is the first stored payload.
C1_PayloadSetOnce ==
    [][/\ completionData # Null => completionData' = completionData
       /\ (promise'.state = "resolved" /\ firstStored' # Null)
              => promise'.value = firstStored']_vars

\* C2: the completion gate is one-shot: shutdown(resolve) runs at most once
\* in a session, whatever triggers fire.
C2_ShutdownAtMostOnce == shutdownCalls <= 1

\* C3: the promise returned by startServer settles once with one outcome: a
\* settled promise never changes its state or its value, a resolved promise
\* carries a payload and a rejected one the server error.
C3_SettlesOnce ==
    [][/\ promise.state # "pending" => promise' = promise
       /\ promise'.state = "resolved" => promise'.value \notin {Null, BindError, AcceptError}
       /\ promise'.state = "rejected" => promise'.value \in {BindError, AcceptError}]_vars

\* C3 witness: the promise was rejected by a server error and a later
\* close callback called resolve on it.
C3_Witness ==
    /\ promise.state = "rejected"
    /\ steps = <<"closed", "resolve">>

\* C4: every /api/complete handler issues its response
\* {status:'received', success:true} before it calls serverResolve, hence
\* before the server.close that this call begins.
C4_RespondBeforeGate ==
    (steps # <<>> /\ steps[1] = "complete") =>
        /\ Has(steps, "respond")
        /\ response = [code |-> 200, body |-> [status |-> "received", success |-> TRUE]]
        /\ Before(steps, "respond", "gate")
        /\ Before(steps, "respond", "shutdown")
        /\ Before(steps, "respond", "close")

\* C4 witness: a /api/complete handler has responded and then resolved the
\* gate, which closed the server.
C4_Witness ==
    /\ steps = <<"complete", "store", "respond", "gate", "clearTimeout",
                 "shutdown", "close">>
    /\ server = "closing"

\* A /api/save handler has just issued its 200 response in a session with
\* shutdownOnSave.
SaveResponded ==
    /\ steps # <<>> /\ steps[1] \in {"save", "written"}
    /\ shutdownOnSave
    /\ response # Null /\ response.code = 200

\* C5 as stated: a shutdown-on-save /api/save sends its 200 response before
\* any teardown of the server has begun (no shutdown has been called when the
\* response is issued).
C5_RespondBeforeTeardown == SaveResponded => shutdownCalls = 0

\* C5 amended: a shutdown-on-save /api/save issues its 200 response before
\* it stores the payload and schedules its own 100 ms gate signal, and the
\* handler itself never resolves the gate; only a teardown begun by another
\* trigger can precede the response.
C5_RespondBeforeOwnGate ==
    [][/\ SaveResponded' =>
             /\ Before(steps', "respond", "store")
             /\ Before(steps', "respond", "setTimeout")
             /\ ~Has(steps', "gate") /\ ~Has(steps', "shutdown")
             /\ gateCalls' = gateCalls /\ shutdownCalls' = shutdownCalls
       /\ delayTimers' > delayTimers => SaveResponded'
       /\ Has(steps', "delay") => delayTimers > 0]_vars

\* C5 witness: a save was answered 200 after another trigger had begun the
\* teardown, and has scheduled its own gate signal.
C5_Witness ==
    /\ SaveResponded
    /\ Has(steps, "setTimeout")
    /\ delayTimers > 0
    /\ shutdownCalls > 0

\* C6: once serverResolve has been called the timeout timer is no longer
\* armed and its callback does not run in any later step.
C6_TimerCancelledByGate ==
    [][/\ gateCalls' > 0 => timeoutHandle' # "armed"
       /\ gateCalls > 0 => ~Has(steps', "timeout")
       /\ (gateCalls > 0 /\ timeoutHandle' = "fired") => timeoutHandle = "fired"]_vars

\* C6 witness: serverResolve was called while the timer was armed and
\* cleared it (no server error did).
C6_Witness ==
    /\ gateCalls > 0
    /\ timeoutHandle = "cleared"
    /\ promise.state # "rejected"
    /\ server # "failed"

\* C7: when the session is Terminated (server closed, promise resolved) no
\* timer of the session is pending: neither the timeout timer nor a 100 ms
\* shutdown-on-save timer.
C7_NoDanglingTimers ==
    (server = "closed" /\ promise.state = "resolved") =>
        (timeoutHandle # "armed" /\ delayTimers = 0)

\* C8 as stated: when the timeout callback is the first caller of shutdown
\* the result of startServer is a cancellation result.
C8_TimeoutGivesCancelled ==
    (firstShutdownBy = "timer" /\ promise.state = "resolved") =>
        IsCancellation(promise.value)

\* C8 amended: when the timeout callback is the first caller of shutdown,
\* the result is a cancellation result if completionData is unset when the
\* server has closed, and otherwise the payload stored by then.
C8_TimeoutCancelledIfUnset ==
    (firstShutdownBy = "timer" /\ promise.state = "resolved") =>
        IF slotAtClose = Null
        THEN IsCancellation(promise.value)
        ELSE promise.value = slotAtClose /\ ~IsCancellation(promise.value)

\* C8 witness: the timer ended the session and the cancellation result was
\* returned.
C8_Witness ==
    /\ firstShutdownBy = "timer"
    /\ promise.state = "resolved"
    /\ slotAtClose = Null
    /\ IsCancellation(promise.value)

\* C9: when startServer resolves, its result is the default payload
\* (success=false, text='', metadata.cancelled=true) if and only if
\* completionData was unset when the server closed.
C9_DefaultIffUnset ==
    promise.state = "resolved" =>
        /\ slotAtClose = Null =>
              /\ promise.value = DefaultPayload
              /\ promise.value.success = FALSE
              /\ promise.value.text = ""
              /\ promise.value.metadata.cancelled = TRUE
        /\ promise.value = DefaultPayload => slotAtClose = Null
        /\ slotAtClose # Null => promise.value = slotAtClose

\* C9 witness: a signal ended a session in which nothing was stored and
\* the default payload was returned.
C9_Witness ==
    /\ promise.state = "resolved"
    /\ firstShutdownBy = "signal"
    /\ firstStored = Null
    /\ promise.value = DefaultPayload

\* C10: every SIGINT or SIGTERM delivered after startServer was called acts
\* as a gate trigger (calls serverResolve), also while the server is still
\* starting.
C10_SignalTriggersGate ==
    [][nsig' > nsig => gateCalls' > gateCalls]_vars

\* C11: every session that started successfully (the server is listening)
\* eventually terminates when no client sends a request: the server closes
\* and startServer resolves with success=false and the cancelled marker;
\* unless a signal ends the session first it is the timeout timer that
\* fires and begins the shutdown.
C11_IdleSessionTerminates ==
    /\ (server = "listening") ~>
           (/\ server = "closed"
            /\ promise.state = "resolved"
            /\ IsCancellation(promise.value)
            /\ promise.value.success = FALSE)
    /\ []((server = "closed" /\ nsig = 0) =>
              (firstShutdownBy = "timer" /\ timeoutHandle = "fired"))

\* C11 witness: with no request and no signal the timer fired, the server
\* closed and its close callback resolved startServer with the cancellation
\* result.
C11_Witness ==
    /\ nreq = 0 /\ nsig = 0
    /\ timeoutHandle = "fired"
    /\ steps = <<"closed", "resolve">>
    /\ server = "closed"
    /\ promise.state = "resolved"
    /\ IsCancellation(promise.value)

\* C12: when binding the port fails the session goes from Starting to
\* Failed: the timeout timer is cleared, startServer is rejected with the
\* bind error and is never resolved with a payload, and the only step the
\* CLI process takes from there is its exit with a nonzero code, with no
\* result printed.
C12_BindFailureFails ==
    [][/\ server' = "failed" =>
             /\ server \in {"binding", "failed"}
             /\ timeoutHandle' = "cleared"
             /\ promise' = [state |-> "rejected", value |-> BindError]
             /\ printed' = <<>>
             /\ exitCode' \in {NoExit, 1}
       /\ (server = "failed" /\ cli # "exited") =>
             (cli' = "exited" /\ exitCode' = 1 /\ exitCode' # 0)]_vars

\* C12 witness: the bind failed and the CLI has exited with code 1.
C12_Witness ==
    /\ server = "failed"
    /\ promise = [state |-> "rejected", value |-> BindError]
    /\ cli = "exited"
    /\ exitCode = 1
    /\ printed = <<>>

\* A /api/save request has been received in this step (the handler has run
\* up to its response or up to the await of the file write).
SaveReceived == nreq' = nreq + 1 /\ steps' # <<>> /\ steps'[1] = "save"

\* C13: a POST /api/save whose body has no buffer field is answered
\* 400 {success:false, error:'No buffer provided'} and has no other effect,
\* whatever the save mode and shutdownOnSave are: no file write is started
\* and the file, the payload slot, the gate, the timers and the server are
\* as they were before the request.
C13_NoBufferRejected ==
    [][(SaveReceived /\ "buffer" \notin DOMAIN request') =>
          /\ response' = [code |-> 400,
                          body |-> [success |-> FALSE, error |-> "No buffer provided"]]
          /\ steps' = <<"save", "respond">>
          /\ UNCHANGED <<file, writes, completionData, firstStored, delayTimers>>
          /\ UNCHANGED gate
          /\ UNCHANGED config]_vars

\* C13 witness: a save without a buffer field was answered 400 in a disk
\* mode session with a path and shutdownOnSave, before any payload was stored.
C13_Witness ==
    /\ steps = <<"save", "respond">>
    /\ "buffer" \notin DOMAIN request
    /\ response.code = 400
    /\ saveConfig = [mode |-> "disk", path |-> SavePath]
    /\ shutdownOnSave /\ serverResolve
    /\ completionData = Null /\ file = NoFile /\ delayTimers = 0

\* C14: when the disk write of a /api/save fails the request is answered
\* 500 {success:false, error} and goes no further: that is its only
\* response, the payload slot is not set, no 100 ms timer is scheduled and
\* the gate is not signalled, also with shutdownOnSave true.
C14_WriteFailureStops ==
    [][(steps' # <<>> /\ steps'[1] = "writeFailed") =>
          /\ response'.code = 500
          /\ response'.body.success = FALSE
          /\ "error" \in DOMAIN response'.body
          /\ steps' = <<"writeFailed", "respond">>
          /\ UNCHANGED <<completionData, firstStored, delayTimers>>
          /\ UNCHANGED gate]_vars

\* C14 witness: a write failed in a session with shutdownOnSave and the
\* gate installed; the request was answered 500 and nothing was stored or
\* scheduled.
C14_Witness ==
    /\ steps = <<"writeFailed", "respond">>
    /\ response.code = 500
    /\ request.buffer = "a"
    /\ shutdownOnSave /\ serverResolve
    /\ completionData = Null /\ delayTimers = 0 /\ gateCalls = 0
    /\ promise.state = "pending"

\* A /api/save request has been answered in this step: by the handler at
\* once, or by its continuation after the file write.
SaveAnswered ==
    /\ steps' # <<>> /\ steps'[1] \in {"save", "written", "writeFailed"}
    /\ response' # Null

\* C15: round trip: when a /api/save that carries a buffer string has been
\* answered in disk or both mode with a path configured, and its write did
\* not fail, the file at the path holds exactly that string; this for every
\* string, the empty one included.
C15_RoundTrip ==
    [][(/\ SaveAnswered
        /\ steps'[1] # "writeFailed"
        /\ "buffer" \in DOMAIN request'
        /\ saveConfig.mode \in {"disk", "both"}
        /\ saveConfig.path # NullStr)
          => file' = request'.buffer]_vars

\* The handler that ran last was /api/save and it answered 200.
SaveSucceeded ==
    /\ steps # <<>> /\ steps[1] \in {"save", "written"}
    /\ response # Null /\ response.code = 200

\* C16: in every 200 response of /api/save the field saved is
\* {buffer, metadata} with the posted buffer exactly when the configured
\* mode is return or both and is null when the mode is disk, and the field
\* mode is the configured save mode.
C16_SavedAndModeFields ==
    SaveSucceeded =>
        /\ response.body.mode = saveConfig.mode
        /\ (saveConfig.mode \in {"return", "both"}) <=> (response.body.saved # Null)
        /\ response.body.saved # Null =>
               /\ response.body.saved.buffer = request.buffer
               /\ response.body.saved.metadata = MetadataOf(request)
        /\ saveConfig.mode = "disk" => response.body.saved = Null

\* C16 witness: a disk mode save was answered 200 with saved null after the
\* file was written.
C16_Witness ==
    /\ SaveSucceeded
    /\ saveConfig.mode = "disk"
    /\ response.body.saved = Null
    /\ response.body.mode = "disk"
    /\ file = request.buffer

\* C17: in every 200 response of /api/save the field filePath is the
\* configured path exactly when this request wrote the file (which happens
\* in disk or both mode only) and is null otherwise; in return mode no
\* file is written, whatever path is configured.
C17_FilePathField ==
    /\ SaveSucceeded =>
          /\ (steps[1] = "written") <=> (response.body.filePath # NullStr)
          /\ steps[1] = "written" =>
                 /\ response.body.filePath = saveConfig.path
                 /\ saveConfig.mode \in {"disk", "both"}
          /\ saveConfig.mode = "return" => response.body.filePath = NullStr
    /\ saveConfig.mode = "return" =>
          (file = NoFile /\ \A c \in Conns : writes[c] = Null)

\* C17 witness: a return mode session with a path configured answered a
\* save 200 with filePath null and wrote no file.
C17_Witness ==
    /\ SaveSucceeded
    /\ saveConfig = [mode |-> "return", path |-> SavePath]
    /\ response.body.filePath = NullStr
    /\ response.body.saved.buffer = request.buffer
    /\ file = NoFile

\* C18: for every /api/save that carries a buffer a disk write is attempted
\* (the handler calls fs.writeFile) if and only if the save mode is disk or
\* both, whether or not a path is configured.  Stated for non-empty buffers,
\* which the handler does not reject.
C18_WriteIffDiskMode ==
    [][(/\ SaveReceived
        /\ "buffer" \in DOMAIN request'
        /\ request'.buffer # "")
          => ((saveConfig.mode \in {"disk", "both"})
                 <=> (Has(steps', "writeFile") /\ writes' # writes))]_vars

\* C19: in a session configured with mode disk or both and no path, every
\* /api/save with a (non-empty) buffer is answered with an error response,
\* never with a 200 success.
C19_NoPathFailsPerRequest ==
    (/\ steps # <<>> /\ steps[1] = "save"
     /\ response # Null
     /\ "buffer" \in DOMAIN request /\ request.buffer # ""
     /\ saveConfig.mode \in {"disk", "both"}
     /\ saveConfig.path = NullStr)
        => (response.code >= 400 /\ response.body.success = FALSE)

\* A request was answered by the error handler in this step.
ErrorAnswered == steps' = <<"error", "respond">>

\* C20: a request-level error stays local to its request.  A step in which
\* a /api/save is answered 400 or 500 (missing buffer, failed write, body
\* that cannot be parsed) leaves the payload slot, the gate
\* (pending, resolved, rejected), the timers, the server, the connections
\* and the configuration exactly as they were and starts no write; and in
\* every state, hence also after such a request, a valid request succeeds:
\* /api/complete is answered 200 and stores its body, /api/save with a
\* buffer is answered 200 unless it has to await its disk write, and a write
\* that succeeds is answered 200.
C20_RequestErrorsLocal ==
    [][/\ ((SaveAnswered \/ ErrorAnswered) /\ response'.code \in {400, 500}) =>
             /\ UNCHANGED <<completionData, firstStored, delayTimers, conn>>
             /\ UNCHANGED gate
             /\ UNCHANGED config
             /\ \A c \in Conns : writes'[c] \in {Null, writes[c]}
       /\ (nreq' = nreq + 1 /\ steps'[1] = "complete") =>
             (response'.code = 200 /\ completionData' = request')
       /\ (SaveReceived /\ ~NoBuffer(request')) =>
             IF response' = Null
             THEN Has(steps', "writeFile")
             ELSE response'.code = 200 /\ response'.body.success
       /\ (steps' # <<>> /\ steps'[1] = "written") =>
             (response'.code = 200 /\ response'.body.success)]_vars

\* C20 witness: a save was answered 500 while the session was running with
\* nothing stored; the session is still running and the next valid
\* /api/complete on the same connection is answered 200.
C20_Witness ==
    /\ steps = <<"writeFailed", "respond">>
    /\ response.code = 500
    /\ server = "listening" /\ timeoutHandle = "armed"
    /\ promise.state = "pending" /\ completionData = Null
    /\ conn[1] = "open" /\ writes[1] = Null
    /\ ENABLED (/\ PostComplete(1, [success |-> TRUE, text |-> "a", metadata |-> MetaC])
                /\ response'.code = 200)

\* A /api/save handler has run in this step (from the request to its
\* response or to the await of the write, or from the write to the response).
SaveStep ==
    steps' # <<>> /\ steps'[1] \in {"save", "written", "writeFailed"}

\* C21: with shutdownOnSave false no /api/save, however many succeed,
\* touches the payload slot or the gate: no 100 ms timer is ever scheduled
\* and a shutdown is begun only by /api/complete, the timeout or a signal;
\* with shutdownOnSave true every save answered 200 stores its payload and
\* schedules a 100 ms timer, whose callback calls serverResolve.
C21_PerpetualOrShutdown ==
    [][/\ (~shutdownOnSave' /\ SaveStep) =>
             /\ UNCHANGED <<completionData, firstStored, delayTimers>>
             /\ UNCHANGED gate
       /\ ~shutdownOnSave' =>
             /\ delayTimers' = 0
             /\ firstShutdownBy' \in {"none", "complete", "timer", "signal"}
       /\ (shutdownOnSave' /\ SaveStep /\ response' # Null /\ response'.code = 200) =>
             /\ delayTimers' = delayTimers + 1
             /\ completionData'.text = request'.buffer
       /\ Has(steps', "delay") =>
             (delayTimers' = delayTimers - 1 /\ gateCalls' = gateCalls + 1)]_vars

\* C21 witness: in a session with shutdownOnSave false a second request, a
\* save that wrote the file, was answered 200 and the session is running
\* with nothing stored.
C21_Witness ==
    /\ ~shutdownOnSave
    /\ nreq = 2
    /\ steps = <<"written", "respond">>
    /\ response.code = 200
    /\ file = request.buffer
    /\ completionData = Null
    /\ server = "listening" /\ timeoutHandle = "armed"
    /\ promise.state = "pending" /\ gateCalls = 0


\* C22: in a session with saveMode disk or both, a save path and
\* shutdownOnSave, when the session terminates with the payload of a
\* successful save, the text of the result equals the content of the file.
C22_ResultEqualsFile ==
    [][(/\ promise.state = "pending"
        /\ promise'.state = "resolved"
        /\ saveConfig # Null
        /\ saveConfig.mode \in {"disk", "both"}
        /\ saveConfig.path = SavePath
        /\ shutdownOnSave
        /\ "savedVia" \in DOMAIN promise'.value)
          => promise'.value.text = file']_vars


\* C23: the CLI attempts to open the browser while the session is running:
\* when main() is at `await open(...)` the server has been started and the
\* session result is not yet available.
C23_BrowserOpenedDuringSession ==
    cli = "opening" => (phase # "idle" /\ promise.state = "pending")


\* C24: when the output-file option is given, the JSON result has been
\* written to that file by the time the CLI process has exited with code 0.
C24_OutputFileWritten ==
    (cli = "exited" /\ exitCode = 0 /\ argv.output)
        => outFile = Output(promise.value)


\* C25: the exit code of the CLI is nonzero only when the build failed (the
\* server was never started) or binding the port failed, never for a
\* session that was running.
C25_NonzeroOnlyBuildOrBind ==
    (cli = "exited" /\ exitCode # 0) => (phase = "idle" \/ server = "failed")

\* C26: the metadata of the CLI output always carries a word count: the
\* payload's own when its metadata has one, else the number of
\* white-space-separated non-empty tokens of the text.
C26_OutputHasWordCount ==
    (cli = "exited" /\ exitCode = 0 /\ ~argv.output) =>
        LET out == printed[Len(printed)].json
            result == promise.value
        IN  /\ "wordCount" \in DOMAIN out.metadata
            /\ out.metadata.wordCount =
                  IF "metadata" \in DOMAIN result
                     /\ "wordCount" \in DOMAIN result.metadata
                  THEN result.metadata.wordCount
                  ELSE WordCount(out.text)


\* C27: when the session ended through a shutdown-on-save save, the JSON
\* emitted by the CLI contains savedVia = "save-button" and the filePath of
\* the written file in addition to success, text and metadata.
C27_OutputMirrorsPayload ==
    (/\ cli = "exited"
     /\ exitCode = 0
     /\ ~argv.output
     /\ "savedVia" \in DOMAIN promise.value) =>
        LET out == printed[Len(printed)].json
        IN  /\ {"success", "text", "metadata", "savedVia", "filePath"}
                  \subseteq DOMAIN out
            /\ out.savedVia = "save-button"
            /\ out.filePath = promise.value.filePath
            /\ out.text = promise.value.text


\* C28: on the success path without an output file the process writes
\* exactly one line to standard output, the JSON result.
C28_OnlyResultOnStdout ==
    (cli = "exited" /\ exitCode = 0 /\ ~argv.output) =>
        /\ Len(printed) = 1
        /\ "json" \in DOMAIN printed[1]

\* C29: the server binds the port given to the CLI with --port: the port
\* passed to listen is the configured port.
C29_ListenOnConfiguredPort ==
    listenPort # Unset => PortOf(listenPort) = argv.port


\* A GET has been answered with status 200 in the last handler.
GetAnswered ==
    /\ steps = <<"get", "respond">>
    /\ response.code = 200

\* C30: config injection is never bypassed: every GET that returns the
\* index document returns it with the injected config script, the static
\* handler never answers with the raw index document, and an asset of the
\* bundle other than the index is served as its file bytes by the static
\* handler.
C30_InjectionNeverBypassed ==
    GetAnswered =>
        /\ response.body # Html(IndexHtml)
        /\ response.by = "static" =>
              response.body # Html(Inject(IndexHtml, CliUiConfig))
        /\ request.path \in {"/", "/index.html"} =>
              response.body = Html(Inject(IndexHtml, CliUiConfig))
        /\ request.path = "/assets/app.js" =>
              (response.by = "static" /\ response.body = Html(AppJs))


-----------------------------------------------------------------------------
(* The page of the writer server: GET / (writer/server.js:199-236) *)

\* The index document after the UI bundle has been built again.
RebuiltIndex ==
    <<Piece("<head>"), Piece("<title>"), Piece("</head>"), Piece("<body>")>>

\* The UI configurations passed to startServer: all fields null, three plain
\* texts, and titles that hold a dollar sign.
PageConfigs ==
    { CliUiConfig,
      [title |-> Text(<<"T">>), mainText |-> Text(<<"M">>),
       subText |-> Text(<<"S">>)],
      [title |-> Text(<<"$", "$">>), mainText |-> Null, subText |-> Null],
      [title |-> Text(<<"$", "&">>), mainText |-> Null, subText |-> Null] }

\* The options of a session that serves the page: uiConfig given or omitted.
PageOptions ==
    { [saveConfig |-> Null, shutdownOnSave |-> Null] }
    \cup { [saveConfig |-> Null, shutdownOnSave |-> Null, uiConfig |-> cfg] :
              cfg \in PageConfigs }

\* dist/index.html is replaced by a new build while the server runs.
Rebuild ==
    /\ Alive
    /\ phase # "idle"
    /\ indexFile = BuiltIndex
    /\ indexFile' = RebuiltIndex
    /\ steps' = <<"build">>
    /\ response' = Null
    /\ request' = Null
    /\ UNCHANGED <<phase, options, serverResolve, saveConfig, shutdownOnSave,
                   uiConfig, reads, timeout, logger>>
    /\ UNCHANGED <<completionData, delayTimers, conn, writes, file, nreq,
                   nsig, firstStored>>
    /\ UNCHANGED gate
    /\ UNCHANGED process

\* GET / up to `await fs.readFile(indexPath, 'utf-8')` (lines 199-207): the
\* read takes the content the file has now.
GetIndex(c) ==
    /\ CanRequest(c)
    /\ nreq' = nreq + 1
    /\ reads' = [reads EXCEPT ![c] = [html |-> indexFile]]
    /\ request' = [method |-> "GET", path |-> "/"]
    /\ steps' = <<"get", "readFile">>
    /\ response' = Null
    /\ UNCHANGED <<phase, options, serverResolve, saveConfig, shutdownOnSave,
                   uiConfig, indexFile, timeout, logger>>
    /\ UNCHANGED <<completionData, delayTimers, conn, writes, file, nsig,
                   firstStored>>
    /\ UNCHANGED gate
    /\ UNCHANGED process

\* The GET / handler resumes (lines 207-235): the read returned the document
\* (ok), which is sent with the script made from the uiConfig of this moment,
\* or it threw and the handler answers 500.
GetIndexDone(c, ok) ==
    /\ Quiet
    /\ reads[c] # Null
    /\ reads' = [reads EXCEPT ![c] = Null]
    /\ request' = [method |-> "GET", path |-> "/", read |-> reads[c].html]
    /\ steps' = <<"get", "respond">>
    /\ response' =
          IF ok
          THEN [code |-> 200, by |-> "route",
                body |-> Html(Inject(reads[c].html, uiConfig))]
          ELSE [code |-> 500, by |-> "route",
                body |-> [error |-> "Failed to load page"]]
    /\ UNCHANGED <<phase, options, serverResolve, saveConfig, shutdownOnSave,
                   uiConfig, indexFile, timeout, logger>>
    /\ UNCHANGED <<completionData, delayTimers, conn, writes, file, nreq,
                   nsig, firstStored>>
    /\ UNCHANGED gate
    /\ UNCHANGED process

\* A session of the writer server that serves its page and ends by its
\* timeout.
NextPage ==
    \/ \E opts \in PageOptions : StartServer(opts) /\ UNCHANGED process
    \/ StartListen
    \/ Listening
    \/ TimeoutFire
    \/ ServerClosed
    \/ \E c \in Conns : Connect(c)
    \/ \E c \in Conns : Disconnect(c)
    \/ \E c \in Conns : GetIndex(c)
    \/ \E c \in Conns, ok \in BOOLEAN : GetIndexDone(c, ok)
    \/ Rebuild

SpecPage == Init /\ [][NextPage]_vars

\* html with the script put in front of its first </head>.
WithScript(html, script) ==
    IF HeadEnd(html) > 0
    THEN SubSeq(html, 1, HeadEnd(html) - 1) \o <<script>>
             \o SubSeq(html, HeadEnd(html), Len(html))
    ELSE html

\* C31: every GET / answered 200 carries the document read for this request
\* with a script that serialises the uiConfig of the session: the title,
\* mainText and subText passed to startServer, a null for each null field.
C31_PageFromReadAndConfig ==
    (GetAnswered /\ request.path = "/" /\ "uiConfig" \in DOMAIN options) =>
        response.body =
            Html(WithScript(request.read, ConfigScript(options.uiConfig)))


\* The stage of the session.
Stage ==
    IF phase = "idle" THEN "Idle"
    ELSE IF promise.state = "rejected" THEN "Failed"
    ELSE IF promise.state = "resolved" THEN "Terminated"
    ELSE IF shutdownCalls > 0 THEN "ShuttingDown"
    ELSE IF server = "listening" THEN "Running"
    ELSE "Starting"

\* The transitions between stages.
StageSteps ==
    { <<"Idle", "Starting">>, <<"Starting", "Running">>,
      <<"Running", "ShuttingDown">>, <<"ShuttingDown", "Terminated">>,
      <<"Starting", "Failed">> }

\* C32: the session moves Idle -> Starting -> Running -> ShuttingDown ->
\* Terminated, or Starting -> Failed, and by no other transition; the port
\* of a session whose timeout timer is armed has been bound, the gate is
\* triggered and shutdown is called only in a session that has been Running
\* and has not Failed, and shutdown is first called in a Running session.
C32_Lifecycle ==
    [][/\ Stage' # Stage => <<Stage, Stage'>> \in StageSteps
       /\ (timeoutHandle = "armed" /\ server' # server) => server' # "failed"
       /\ (gateCalls' > gateCalls \/ shutdownCalls' > shutdownCalls) =>
             Stage \in {"Running", "ShuttingDown", "Terminated"}
       /\ (shutdownCalls = 0 /\ shutdownCalls' > 0) => Stage = "Running"
      ]_vars


SaveStored == Has(steps, "store") /\ Has(steps, "setTimeout")

\* C34: the payload a shutdown-on-save /api/save stores is {success: true,
\* text: the posted buffer, metadata: the posted metadata or {} when absent,
\* savedVia: 'save-button', filePath}; filePath is the written path when the
\* request wrote the file and null otherwise; the handler stores it after
\* its 200 response and before it schedules the 100 ms gate signal.
C34_SavePayload ==
    SaveStored =>
        /\ completionData =
              [success |-> TRUE,
               text |-> request.buffer,
               metadata |-> IF "metadata" \in DOMAIN request
                            THEN request.metadata ELSE EmptyObject,
               savedVia |-> "save-button",
               filePath |-> IF Has(steps, "written")
                            THEN saveConfig.path ELSE NullStr]
        /\ Has(steps, "written") =>
              (completionData.filePath # NullStr
                  /\ saveConfig.mode \in {"disk", "both"})
        /\ response.code = 200
        /\ FirstPos(steps, "respond") > 0
        /\ FirstPos(steps, "respond") < FirstPos(steps, "store")
        /\ FirstPos(steps, "store") < FirstPos(steps, "setTimeout")
        /\ delayTimers > 0

\* C34 witness: a save without metadata wrote the file and stored a payload
\* with metadata {} and the written path.
C34_Witness ==
    /\ SaveStored
    /\ Has(steps, "written")
    /\ "metadata" \notin DOMAIN request
    /\ completionData.metadata = EmptyObject
    /\ completionData.filePath = SavePath
    /\ completionData.text = request.buffer


-----------------------------------------------------------------------------
(* The file write of /api/save in its two steps (writer/server.js:109) *)

\* The texts a file of the model can hold, and their characters.
DiskTexts == {"", "a", "bb", "ab"}
DiskChars(text) ==
    CASE text = "" -> <<>>
      [] text = "a" -> <<"a">>
      [] text = "bb" -> <<"b", "b">>
      [] text = "ab" -> <<"a", "b">>

\* The text with the characters cs.
TextOf(cs) == CHOOSE t \in DiskTexts : DiskChars(t) = cs

\* A write of the characters new at offset 0 of a file holding old: the
\* characters of old behind the written ones stay.
Overwrite(old, new) ==
    TextOf(DiskChars(new)
              \o SubSeq(DiskChars(old), Len(DiskChars(new)) + 1,
                        Len(DiskChars(old))))

\* Bodies posted to /api/save with buffers of different lengths.
DiskBodies == { [buffer |-> "a", metadata |-> MetaS], [buffer |-> "bb"] }

\* Sessions that write the buffer to the disk.
DiskOptions ==
    { [saveConfig |-> [mode |-> m, path |-> SavePath],
       shutdownOnSave |-> [v |-> FALSE]] : m \in {"disk", "both"} }

\* fs.writeFile opens the file with flag 'w': the file is created or
\* truncated.
WriteOpens(c) ==
    /\ Alive
    /\ writes[c] # Null
    /\ ~writes[c].landed
    /\ "opened" \notin DOMAIN writes[c]
    /\ writes' = [writes EXCEPT ![c] = [body |-> writes[c].body,
                                        landed |-> FALSE, opened |-> TRUE]]
    /\ file' = ""
    /\ steps' = <<"open">>
    /\ response' = Null
    /\ request' = Null
    /\ UNCHANGED <<completionData, delayTimers, conn, nreq, nsig,
                   firstStored>>
    /\ UNCHANGED gate
    /\ UNCHANGED config
    /\ UNCHANGED process

\* fs.writeFile writes the buffer through its own descriptor, from offset 0.
WriteData(c) ==
    /\ Alive
    /\ writes[c] # Null
    /\ ~writes[c].landed
    /\ "opened" \in DOMAIN writes[c]
    /\ writes' = [writes EXCEPT ![c].landed = TRUE]
    /\ file' = Overwrite(file, writes[c].body.buffer)
    /\ steps' = <<"disk">>
    /\ response' = Null
    /\ request' = Null
    /\ UNCHANGED <<completionData, delayTimers, conn, nreq, nsig,
                   firstStored>>
    /\ UNCHANGED gate
    /\ UNCHANGED config
    /\ UNCHANGED process

\* A session in disk or both mode that receives saves and ends by its
\* timeout.
NextDisk ==
    \/ \E opts \in DiskOptions : StartServer(opts) /\ UNCHANGED process
    \/ StartListen
    \/ Listening
    \/ TimeoutFire
    \/ ServerClosed
    \/ \E c \in Conns : Connect(c)
    \/ \E c \in Conns : Disconnect(c)
    \/ \E c \in Conns, body \in DiskBodies : PostSave(c, body)
    \/ \E c \in Conns : WriteOpens(c)
    \/ \E c \in Conns : WriteData(c)
    \/ \E c \in Conns, ok \in BOOLEAN : WriteDone(c, ok)

SpecDisk == Init /\ [][NextDisk]_vars

\* C35: with concurrent /api/save requests in disk or both mode the file,
\* once a write has reached it, holds the whole buffer of one request and
\* never a mix of two, and every 200 response that reports a buffer reports
\* the buffer of its own request.
C35_FileHoldsOneBuffer ==
    /\ file \in {NoFile, ""} \cup {body.buffer : body \in DiskBodies}
    /\ (SaveSucceeded /\ saveConfig.mode = "both") =>
          response.body.saved.buffer = request.buffer


-----------------------------------------------------------------------------
(* The delay of the session timeout timer (writer/server.js:302-323) *)

\* The timeouts passed to startServer, in milliseconds: zero, a millisecond,
\* a second, the default and an hour.
Timeouts == {0, 1, 1000, DefaultTimeout, 3600000}

\* The options of a session with a timeout given or omitted.
TimeoutOptions ==
    { [saveConfig |-> Null, shutdownOnSave |-> Null] }
    \cup { [saveConfig |-> Null, shutdownOnSave |-> Null, timeout |-> t] :
              t \in Timeouts }

\* A session that ends by its timeout or by /api/complete.
NextTimeout ==
    \/ \E opts \in TimeoutOptions : StartServer(opts) /\ UNCHANGED process
    \/ StartListen
    \/ Listening
    \/ TimeoutFire
    \/ ServerClosed
    \/ \E c \in Conns : Connect(c)
    \/ \E c \in Conns : Disconnect(c)
    \/ \E c \in Conns, body \in CompleteBodies : PostComplete(c, body)

SpecTimeout == Init /\ [][NextTimeout]_vars

\* C36: the timeout timer is armed with the timeout passed to startServer,
\* whatever number it is, 0 included; with the 15 minutes of the default
\* only when no timeout is passed.
C36_TimerDelay ==
    timeoutHandle # "none" =>
        /\ "timeout" \in DOMAIN options => timeout = options.timeout
        /\ "timeout" \notin DOMAIN options => timeout = DefaultTimeout


-----------------------------------------------------------------------------
(* The success field of the CLI output (voidwriter.js:165-174) *)

\* Bodies posted to /api/complete with success true, with success false and
\* without a success field.
SuccessBodies ==
    { [success |-> TRUE, text |-> "a", metadata |-> MetaC],
      [success |-> FALSE, text |-> "a", metadata |-> MetaC],
      [text |-> "a", metadata |-> MetaC] }

\* A CLI session that ends by /api/complete or by its timeout.
NextSuccess ==
    \/ LoadServer
    \/ \E buildOk \in BOOLEAN : CliMainRoot(buildOk)
    \/ Listening
    \/ TimeoutFire
    \/ ServerClosed
    \/ \E c \in Conns : Connect(c)
    \/ \E c \in Conns : Disconnect(c)
    \/ \E c \in Conns, body \in SuccessBodies : PostComplete(c, body)
    \/ CliResume
    \/ CliOpened

SpecSuccess == InitRootCli /\ [][NextSuccess]_vars

\* C37: the success field the CLI emits is that of the session payload: true
\* when the payload has success true, false for the default payload and for
\* every payload with success false or without a success field.
C37_SuccessMirrorsPayload ==
    (cli = "exited" /\ exitCode = 0 /\ ~argv.output) =>
        printed[Len(printed)].json.success =
            ("success" \in DOMAIN promise.value /\ promise.value.success = TRUE)


-----------------------------------------------------------------------------
(* A second call of startServer in the same process *)

\* The options of the first call: nothing given, or a save configuration,
\* shutdownOnSave and a UI configuration.
FirstOptions ==
    { [saveConfig |-> Null, shutdownOnSave |-> Null],
      [saveConfig |-> [mode |-> "both", path |-> SavePath],
       shutdownOnSave |-> [v |-> TRUE],
       uiConfig |-> [title |-> Text(<<"T">>), mainText |-> Null,
                     subText |-> Null]] }

\* The options of the second call, told apart by their sessionId (line 275):
\* nothing else given, or a return-mode configuration.
SecondOptions ==
    { [saveConfig |-> Null, shutdownOnSave |-> Null, sessionId |-> "second"],
      [saveConfig |-> [mode |-> "return", path |-> NullStr],
       shutdownOnSave |-> [v |-> FALSE], uiConfig |-> CliUiConfig,
       sessionId |-> "second"] }

\* startServer is called again after the promise of the first call has
\* resolved: the executor up to `await logger.initPromise` (lines 269-279)
\* makes a new promise and a new logger and assigns to no variable of the
\* module.
StartServerAgain(opts) ==
    /\ Quiet
    /\ phase = "started"
    /\ "sessionId" \notin DOMAIN options
    /\ promise.state = "resolved"
    /\ closeCbs = 0
    /\ phase' = "init"
    /\ options' = opts
    /\ promise' = [state |-> "pending", value |-> Null]
    /\ logger' = NewLogger(LoggerOptions(opts))
    /\ steps' = <<"start">>
    /\ response' = Null
    /\ request' = Null
    /\ UNCHANGED <<completionData, serverResolve, saveConfig, shutdownOnSave,
                   delayTimers, conn, writes, file, nreq, nsig, firstStored,
                   timeoutHandle, server, closeCbs, closeEmit, gateCalls,
                   shutdownCalls, firstShutdownBy, slotAtClose>>
    /\ UNCHANGED <<page, timeout>>
    /\ UNCHANGED process

\* Two sessions in one process, each ended by /api/complete or its timeout.
NextAgain ==
    \/ \E opts \in FirstOptions : StartServer(opts) /\ UNCHANGED process
    \/ \E opts \in SecondOptions : StartServerAgain(opts)
    \/ StartListen
    \/ Listening
    \/ TimeoutFire
    \/ ServerClosed
    \/ \E c \in Conns : Connect(c)
    \/ \E c \in Conns : Disconnect(c)
    \/ \E c \in Conns, body \in CompleteBodies : PostComplete(c, body)

SpecAgain == Init /\ [][NextAgain]_vars

\* C38: a second call of startServer begins with the payload slot unset,
\* and once it has stored its configuration each of saveConfig,
\* shutdownOnSave and uiConfig is the one this call passed, or the default
\* of the module when this call omitted it.
C38_FreshSession ==
    "sessionId" \in DOMAIN options =>
        /\ phase = "init" => completionData = Null
        /\ phase = "started" =>
              /\ saveConfig = IF options.saveConfig # Null
                              THEN options.saveConfig
                              ELSE [mode |-> "return", path |-> NullStr]
              /\ shutdownOnSave = IF options.shutdownOnSave # Null
                                  THEN options.shutdownOnSave.v ELSE FALSE
              /\ uiConfig = IF "uiConfig" \in DOMAIN options
                            THEN options.uiConfig ELSE EmptyObject


-----------------------------------------------------------------------------
(* The level filter of the logger (writer/logger.js:33-41, 71-77) *)

\* The options of a session with verbose omitted, true or false.
LogOptions ==
    { [saveConfig |-> Null, shutdownOnSave |-> Null] }
    \cup { [saveConfig |-> Null, shutdownOnSave |-> Null, verbose |-> v] :
              v \in BOOLEAN }

\* A session with a logger that ends by /api/complete or by its timeout.
NextLog ==
    \/ \E opts \in LogOptions : StartServer(opts) /\ UNCHANGED process
    \/ StartListen
    \/ Listening
    \/ TimeoutFire
    \/ ServerClosed
    \/ \E c \in Conns : Connect(c)
    \/ \E c \in Conns : Disconnect(c)
    \/ \E c \in Conns, body \in CompleteBodies : PostComplete(c, body)

SpecLog == Init /\ [][NextLog]_vars

\* The session was started with verbose true.
Verbose == "verbose" \in DOMAIN options /\ options.verbose

\* C39: the logger of a session writes a message if and only if its level
\* is at or above the minimum of the session, which is DEBUG when
\* startServer is called with verbose true and INFO otherwise: DEBUG
\* messages are written in the verbose sessions and in no other.
C39_LevelFilter ==
    logger # Null =>
        /\ \A level \in DOMAIN LogLevels :
              Emitted(logger, level) <=>
                  LogLevels[level] >= (IF Verbose THEN LogLevels.DEBUG
                                       ELSE LogLevels.INFO)
        /\ Emitted(logger, "DEBUG") <=> Verbose

====
